---- MODULE Spec2Model ----
(***************************************************************************)
(* Model of the patent-analysis pipeline scripts src/app11.py (JSON        *)
(* strategy, four gated stages) and src/app10.py (labeled-section          *)
(* strategy).                                                              *)
(*                                                                         *)
(* Text is modelled character by character: a Python str is a sequence of  *)
(* one-character strings.  A Python value (None, bool, int, str, list,     *)
(* dict) is a record [k |-> kind, v |-> payload]; a dict is the sequence   *)
(* of its <<key, value>> pairs in insertion order.                         *)
(***************************************************************************)
EXTENDS Integers, Sequences, FiniteSets, TLC

(***************************************************************************)
(* Python values                                                           *)
(***************************************************************************)
PyNone == [k |-> "None", v |-> 0]
PyBool(b) == [k |-> "bool", v |-> b]
PyInt(n) == [k |-> "int", v |-> n]
PyStr(s) == [k |-> "str", v |-> s]
PyList(xs) == [k |-> "list", v |-> xs]
PyDict(ps) == [k |-> "dict", v |-> ps]

\* bool(x): the truth value a Python if-statement tests
Truthy(x) ==
    CASE x.k = "None" -> FALSE
      [] x.k = "bool" -> x.v
      [] x.k = "int" -> x.v # 0
      [] OTHER -> Len(x.v) > 0

\* d[key] = val on a dict's pair sequence: a repeated key keeps its first
\* position and takes the last value
DictSet(ps, key, val) ==
    IF \E i \in 1..Len(ps) : ps[i][1] = key
    THEN [i \in 1..Len(ps) |-> IF ps[i][1] = key THEN <<key, val>> ELSE ps[i]]
    ELSE Append(ps, <<key, val>>)

\* whether x.get(...) exists: only a dict has the method
HasGet(x) == x.k = "dict"

\* d.get(key, default) on a dict
DictGet(d, key, default) ==
    IF \E i \in 1..Len(d.v) : d.v[i][1] = key
    THEN d.v[CHOOSE i \in 1..Len(d.v) : d.v[i][1] = key][2]
    ELSE default

(***************************************************************************)
(* Python str operations                                                   *)
(***************************************************************************)
Whitespace == {" ", "\n", "\t", "\r"}

RECURSIVE LStrip(_)
LStrip(s) == IF s # <<>> /\ Head(s) \in Whitespace THEN LStrip(Tail(s)) ELSE s

RECURSIVE RStrip(_)
RStrip(s) ==
    IF s # <<>> /\ s[Len(s)] \in Whitespace THEN RStrip(SubSeq(s, 1, Len(s) - 1)) ELSE s

\* s.strip()
Strip(s) == RStrip(LStrip(s))

\* s.startswith(p)
StartsWith(s, p) == Len(s) >= Len(p) /\ SubSeq(s, 1, Len(p)) = p

\* s.endswith(p)
EndsWith(s, p) == Len(s) >= Len(p) /\ SubSeq(s, Len(s) - Len(p) + 1, Len(s)) = p

\* s[a:len(s)-b] for a, b >= 0
SliceFromTo(s, a, b) ==
    IF a + 1 > Len(s) - b THEN <<>> ELSE SubSeq(s, a + 1, Len(s) - b)

\* the first position from i on where pat occurs in s, or 0 (pat not empty)
RECURSIVE FindText(_, _, _)
FindText(s, pat, i) ==
    IF i + Len(pat) - 1 > Len(s) THEN 0
    ELSE IF SubSeq(s, i, i + Len(pat) - 1) = pat THEN i
    ELSE FindText(s, pat, i + 1)

(***************************************************************************)
(* json.loads: a recursive-descent parser for the JSON subset of objects,  *)
(* arrays, strings with the two-character escapes of quote, backslash,     *)
(* slash, n, t and r, non-negative integers and the three literals.        *)
(* Anything else is a JSONDecodeError.                                     *)
(***************************************************************************)
Digits == <<"0", "1", "2", "3", "4", "5", "6", "7", "8", "9">>
DigitSet == {Digits[i] : i \in 1..10}
DigitVal(c) == (CHOOSE i \in 1..10 : Digits[i] = c) - 1

ParseFail == [ok |-> FALSE, val |-> PyNone, next |-> 0]
ParseOk(val, next) == [ok |-> TRUE, val |-> val, next |-> next]

RECURSIVE SkipWs(_, _)
SkipWs(s, i) == IF i <= Len(s) /\ s[i] \in Whitespace THEN SkipWs(s, i + 1) ELSE i

\* index of the quote closing a string whose body starts at i; 0 when the
\* string is unterminated or holds a control character or another escape
RECURSIVE ScanString(_, _)
ScanString(s, i) ==
    IF i > Len(s) THEN 0
    ELSE IF s[i] = "\"" THEN i
    ELSE IF s[i] \in {"\n", "\t", "\r"} THEN 0
    ELSE IF s[i] = "\\"
    THEN (IF i + 1 <= Len(s) /\ s[i + 1] \in {"\"", "\\", "/", "n", "t", "r"}
          THEN ScanString(s, i + 2)
          ELSE 0)
    ELSE ScanString(s, i + 1)

\* the characters a scanned string body stands for
RECURSIVE Unescape(_)
Unescape(body) ==
    IF body = <<>> THEN <<>>
    ELSE IF body[1] # "\\" THEN <<body[1]>> \o Unescape(Tail(body))
    ELSE <<CASE body[2] = "n" -> "\n"
             [] body[2] = "t" -> "\t"
             [] body[2] = "r" -> "\r"
             [] OTHER -> body[2]>> \o Unescape(SubSeq(body, 3, Len(body)))

RECURSIVE ScanDigits(_, _)
ScanDigits(s, i) == IF i <= Len(s) /\ s[i] \in DigitSet THEN ScanDigits(s, i + 1) ELSE i

RECURSIVE NumVal(_)
NumVal(ds) == IF ds = <<>> THEN 0 ELSE NumVal(SubSeq(ds, 1, Len(ds) - 1)) * 10 + DigitVal(ds[Len(ds)])

LitAt(s, i, lit) == i + Len(lit) - 1 <= Len(s) /\ SubSeq(s, i, i + Len(lit) - 1) = lit

\* Each parsing step is a local operator of the positions found so far.
RECURSIVE ParseValue(_, _)
RECURSIVE ParseMembers(_, _, _)
RECURSIVE ParseElements(_, _, _)

\* the value that starts at the first non-blank position from i0 on
ParseValue(s, i0) ==
    LET \* a string from its opening quote at i to its closing quote at j
        String(i, j) ==
            IF j = 0 THEN ParseFail
            ELSE ParseOk(PyStr(Unescape(SubSeq(s, i + 1, j - 1))), j + 1)
        \* an integer whose digits are s[i..j-1]
        Number(i, j) == ParseOk(PyInt(NumVal(SubSeq(s, i, j - 1))), j)
        \* an object or an array whose first non-blank character is at j
        Object(j) ==
            IF j <= Len(s) /\ s[j] = "}" THEN ParseOk(PyDict(<<>>), j + 1)
            ELSE ParseMembers(s, j, <<>>)
        Array(j) ==
            IF j <= Len(s) /\ s[j] = "]" THEN ParseOk(PyList(<<>>), j + 1)
            ELSE ParseElements(s, j, <<>>)
        At(i) ==
            IF i > Len(s) THEN ParseFail
            ELSE IF s[i] = "\"" THEN String(i, ScanString(s, i + 1))
            ELSE IF s[i] = "{" THEN Object(SkipWs(s, i + 1))
            ELSE IF s[i] = "[" THEN Array(SkipWs(s, i + 1))
            ELSE IF s[i] = "0" THEN ParseOk(PyInt(0), i + 1)
            ELSE IF s[i] \in DigitSet THEN Number(i, ScanDigits(s, i))
            ELSE IF LitAt(s, i, <<"t", "r", "u", "e">>) THEN ParseOk(PyBool(TRUE), i + 4)
            ELSE IF LitAt(s, i, <<"f", "a", "l", "s", "e">>) THEN ParseOk(PyBool(FALSE), i + 5)
            ELSE IF LitAt(s, i, <<"n", "u", "l", "l">>) THEN ParseOk(PyNone, i + 4)
            ELSE ParseFail
    IN  At(SkipWs(s, i0))

\* the members of an object from the key at i on; acc holds the pairs so far
ParseMembers(s, i, acc) ==
    LET \* after a member: e is the next non-blank position
        End(e, pairs) ==
            IF e > Len(s) THEN ParseFail
            ELSE IF s[e] = "}" THEN ParseOk(PyDict(pairs), e + 1)
            ELSE IF s[e] = "," THEN ParseMembers(s, SkipWs(s, e + 1), pairs)
            ELSE ParseFail
        \* r: the parse of the member's value
        Value(key, r) ==
            IF ~r.ok THEN ParseFail ELSE End(SkipWs(s, r.next), DictSet(acc, key, r.val))
        \* c: the position where the colon must be
        Colon(key, c) ==
            IF c > Len(s) \/ s[c] # ":" THEN ParseFail ELSE Value(key, ParseValue(s, c + 1))
        \* j: the quote closing the key
        Key(j) ==
            IF j = 0 THEN ParseFail
            ELSE Colon(Unescape(SubSeq(s, i + 1, j - 1)), SkipWs(s, j + 1))
    IN  IF i > Len(s) \/ s[i] # "\"" THEN ParseFail ELSE Key(ScanString(s, i + 1))

\* the elements of an array from the value at i on
ParseElements(s, i, acc) ==
    LET End(e, items) ==
            IF e > Len(s) THEN ParseFail
            ELSE IF s[e] = "]" THEN ParseOk(PyList(items), e + 1)
            ELSE IF s[e] = "," THEN ParseElements(s, e + 1, items)
            ELSE ParseFail
        Value(r) == IF ~r.ok THEN ParseFail ELSE End(SkipWs(s, r.next), Append(acc, r.val))
    IN  Value(ParseValue(s, i))

\* json.loads(s): [ok |-> TRUE, val |-> value], or ok = FALSE for a
\* JSONDecodeError (no value, or extra data after the value)
json_loads(s) ==
    LET Result(r) ==
            IF r.ok /\ SkipWs(s, r.next) > Len(s)
            THEN [ok |-> TRUE, val |-> r.val]
            ELSE [ok |-> FALSE, val |-> PyNone]
    IN  Result(ParseValue(s, 1))

(***************************************************************************)
(* json.dumps(x, indent=n) and json.dumps(x, separators=...)               *)
(***************************************************************************)
RECURSIVE IntText(_)
IntText(n) == IF n < 10 THEN <<Digits[n + 1]>> ELSE IntText(n \div 10) \o <<Digits[(n % 10) + 1]>>

RECURSIVE JoinWith(_, _)
JoinWith(parts, sep) ==
    IF parts = <<>> THEN <<>>
    ELSE IF Len(parts) = 1 THEN parts[1]
    ELSE parts[1] \o sep \o JoinWith(Tail(parts), sep)

\* a str as json.dumps writes it: quote, backslash and the control characters
\* n, t and r escaped
Quoted(s) ==
    LET Escape(ch) ==
            CASE ch = "\"" -> <<"\\", "\"">>
              [] ch = "\\" -> <<"\\", "\\">>
              [] ch = "\n" -> <<"\\", "n">>
              [] ch = "\t" -> <<"\\", "t">>
              [] ch = "\r" -> <<"\\", "r">>
              [] OTHER -> <<ch>>
    IN  <<"\"">> \o JoinWith([i \in 1..Len(s) |-> Escape(s[i])], <<>>) \o <<"\"">>

\* json.dumps(x, separators=(itemSep, keySep)) on one line
RECURSIVE JsonText(_, _, _)
JsonText(x, itemSep, keySep) ==
    CASE x.k = "None" -> <<"n", "u", "l", "l">>
      [] x.k = "bool" -> IF x.v THEN <<"t", "r", "u", "e">> ELSE <<"f", "a", "l", "s", "e">>
      [] x.k = "int" -> IntText(x.v)
      [] x.k = "str" -> Quoted(x.v)
      [] x.k = "list" ->
            <<"[">> \o JoinWith([i \in 1..Len(x.v) |-> JsonText(x.v[i], itemSep, keySep)], itemSep)
                   \o <<"]">>
      [] x.k = "dict" ->
            <<"{">> \o JoinWith([i \in 1..Len(x.v) |->
                                   Quoted(x.v[i][1]) \o keySep \o JsonText(x.v[i][2], itemSep, keySep)],
                               itemSep)
                   \o <<"}">>

\* json.dumps(x, indent=indent) at nesting depth level
RECURSIVE DumpsIndent(_, _, _)
DumpsIndent(x, indent, level) ==
    LET Items ==
            [i \in 1..Len(x.v) |->
                IF x.k = "dict"
                THEN Quoted(x.v[i][1]) \o <<":", " ">> \o DumpsIndent(x.v[i][2], indent, level + 1)
                ELSE DumpsIndent(x.v[i], indent, level + 1)]
        Bracketed(open, close, inner, outer) ==
            <<open, "\n">> \o inner \o JoinWith(Items, <<",", "\n">> \o inner) \o <<"\n">>
            \o outer \o <<close>>
        Pad(n) == [i \in 1..(indent * n) |-> " "]
    IN  IF x.k = "list" /\ x.v # <<>>
        THEN Bracketed("[", "]", Pad(level + 1), Pad(level))
        ELSE IF x.k = "dict" /\ x.v # <<>>
        THEN Bracketed("{", "}", Pad(level + 1), Pad(level))
        ELSE JsonText(x, <<",", " ">>, <<":", " ">>)

json_dumps_indent2(x) == DumpsIndent(x, 2, 0)

(***************************************************************************)
(* Reply texts.  The backquote character (U+0060) cannot be written in a   *)
(* string literal of this language, so that one character is written by    *)
(* name; it is still a single element of the text.                         *)
(***************************************************************************)
Backtick == "backquote"
Fence == <<Backtick, Backtick, Backtick>>
FenceJson == Fence \o <<"j", "s", "o", "n">>

\* the code-fence removal every reply parser of app11 applies to the
\* a variant that keeps the closing fence
strip_opening_fence(content) ==
    IF StartsWith(content, FenceJson) THEN Strip(SliceFromTo(content, 7, 0))
    ELSE IF StartsWith(content, Fence) THEN Strip(SliceFromTo(content, 3, 0))
    ELSE content

\* stripped reply: content[7:-3].strip() / content[3:-3].strip()
strip_code_fence(content) ==
    IF StartsWith(content, FenceJson) THEN Strip(SliceFromTo(content, 7, 3))
    ELSE IF StartsWith(content, Fence) THEN Strip(SliceFromTo(content, 3, 3))
    ELSE content

\* the outcome of client.chat.completions.create: an exception (transport,
\* authentication) or a reply text
APIError == [k |-> "APIError", v |-> <<>>]
Reply(content) == [k |-> "reply", v |-> content]

\* what the strict JSON parsers (check_for_conflicts, extract_figures_and_text's
\* try block, extract_details_from_filed_application) return for an outcome
parse_json_reply(outcome) ==
    LET ValueOrNone(r) == IF r.ok THEN r.val ELSE PyNone
    IN  IF outcome.k = "APIError" THEN PyNone
        ELSE ValueOrNone(json_loads(strip_code_fence(Strip(outcome.v))))

\* what the narrative parsers (analyze_filed_application,
\* analyze_modified_application) return: the raw text when it is not JSON
parse_json_or_text_reply(outcome) ==
    LET ValueOrText(analysis_output, r) == IF r.ok THEN r.val ELSE PyStr(analysis_output)
        JsonOrText(analysis_output) == ValueOrText(analysis_output, json_loads(analysis_output))
    IN  IF outcome.k = "APIError" THEN PyNone
        ELSE JsonOrText(strip_code_fence(Strip(outcome.v)))

check_for_conflicts(outcome) == parse_json_reply(outcome)

determine_domain_expertise(outcome) ==
    IF outcome.k = "APIError" THEN PyNone ELSE PyStr(Strip(outcome.v))

extract_details_from_filed_application(outcome) == parse_json_reply(outcome)

\* a variant of the narrative parsers that gives up on a reply that is not JSON
analyze_strictly(outcome) == parse_json_reply(outcome)

analyze_filed_application(outcome) == parse_json_or_text_reply(outcome)

analyze_modified_application(outcome) == parse_json_or_text_reply(outcome)

(***************************************************************************)
(* Uploaded PDF files and the Text Extractor of app11                      *)
(***************************************************************************)
Key_pages == <<"p", "a", "g", "e", "s">>
Key_page_number == <<"p", "a", "g", "e", "_", "n", "u", "m", "b", "e", "r">>
Key_text == <<"t", "e", "x", "t">>

\* an uploader's value: no file, or a PDF that fitz can open (with its page
\* texts) or cannot
NoFile == [present |-> FALSE, readable |-> FALSE, pages |-> <<>>]
Pdf(pages) == [present |-> TRUE, readable |-> TRUE, pages |-> pages]
CorruptPdf == [present |-> TRUE, readable |-> FALSE, pages |-> <<>>]

\* a variant of the test below that takes every uploader as filled
UploadedAlways(file) == TRUE

\* uploaded_file is not None
Uploaded(file) == file.present

\* app11's extract_text_from_pdf: the JSON text of {"pages": [{"page_number":
\* n, "text": t}, ...]}, or "" when fitz raises
extract_text_from_pdf(file) ==
    IF ~file.readable THEN <<>>
    ELSE JsonText(PyDict(<< <<Key_pages,
                              PyList([i \in 1..Len(file.pages) |->
                                        PyDict(<< <<Key_page_number, PyInt(i)>>,
                                                  <<Key_text, PyStr(file.pages[i])>> >>)])>> >>),
                  <<",", " ">>, <<":", " ">>)

(***************************************************************************)
(* The replies the model of the hosted LLM can give in a session           *)
(***************************************************************************)
Key_foundational_claim ==
    <<"f", "o", "u", "n", "d", "a", "t", "i", "o", "n", "a", "l", "_", "c", "l", "a", "i", "m">>
Key_documents_referenced ==
    <<"d", "o", "c", "u", "m", "e", "n", "t", "s", "_", "r", "e", "f", "e", "r", "e", "n", "c", "e", "d">>
Key_figures == <<"f", "i", "g", "u", "r", "e", "s">>
Key_figures_analysis ==
    <<"f", "i", "g", "u", "r", "e", "s", "_", "a", "n", "a", "l", "y", "s", "i", "s">>
Key_extracted_paragraphs ==
    <<"e", "x", "t", "r", "a", "c", "t", "e", "d", "_", "p", "a", "r", "a", "g", "r", "a", "p", "h", "s">>
Key_foundational_claim_details ==
    <<"f", "o", "u", "n", "d", "a", "t", "i", "o", "n", "a", "l", "_", "c", "l", "a", "i", "m", "_",
      "d", "e", "t", "a", "i", "l", "s">>

\* an object of the shape the conflict prompt asks for
ConflictObject(claim, docs, figs, text) ==
    PyDict(<< <<Key_foundational_claim, PyStr(claim)>>,
              <<Key_documents_referenced, PyList([i \in 1..Len(docs) |-> PyStr(docs[i])])>>,
              <<Key_figures, PyList([i \in 1..Len(figs) |-> PyStr(figs[i])])>>,
              <<Key_text, PyStr(text)>> >>)

Compact(x) == JsonText(x, <<",">>, <<":">>)
Spaced(x) == JsonText(x, <<",", " ">>, <<":", " ">>)
InJsonFence(body) == FenceJson \o <<"\n">> \o body \o <<"\n">> \o Fence
InBareFence(body) == Fence \o <<"\n">> \o body \o <<"\n">> \o Fence

Prose == <<"R", "e", "j", "e", "c", "t", "i", "o", "n", " ", "i", "s", " ",
           "j", "u", "s", "t", "i", "f", "i", "e", "d">>
Persona == <<"Y", "o", "u", " ", "a", "r", "e", " ", "a", " ", "p", "a", "t", "e", "n", "t", " ",
             "a", "t", "t", "o", "r", "n", "e", "y">>

SampleConflict == ConflictObject(<<"X">>, << <<"A">> >>, <<>>, <<"Y">>)
SampleFigures ==
    PyDict(<< <<Key_figures_analysis, PyList(<<>>)>>,
              <<Key_extracted_paragraphs, PyList(<<PyStr(<<"P">>)>>)>> >>)
SampleDetails == PyDict(<< <<Key_foundational_claim_details, PyList(<<>>)>> >>)

\* determine_domain_expertise: an error, a persona sentence, a blank reply
DomainOutcomes == {APIError, Reply(Persona), Reply(<<" ">>)}
\* check_for_conflicts: an error; the object asked for, fenced; an object
\* without the named fields; an array; prose
ConflictOutcomes ==
    {APIError,
     Reply(InJsonFence(Compact(SampleConflict))),
     Reply(Compact(PyDict(<< <<Key_text, PyStr(<<"Y">>)>> >>))),
     Reply(Compact(PyList(<<PyStr(<<"A">>)>>))),
     Reply(Prose)}
\* extract_figures_and_text: an error; the object asked for; prose
FigureOutcomes == {APIError, Reply(InJsonFence(Spaced(SampleFigures))), Reply(Prose)}
\* extract_details_from_filed_application: an error; the object asked for; prose
DetailsOutcomes == {APIError, Reply(InBareFence(Compact(SampleDetails))), Reply(Prose)}
\* analyze_filed_application and analyze_modified_application: an error;
\* prose, bare or in either fence; a JSON object; a blank reply
AnalysisOutcomes ==
    {APIError, Reply(Prose), Reply(InBareFence(Prose)), Reply(InJsonFence(Prose)),
     Reply(InJsonFence(Compact(SampleDetails))), Reply(<<>>)}

(***************************************************************************)
(* The Report Exporter, save_analysis_to_word (lines 494-541).             *)
(* save_analysis_to_word is what the call does with its argument: it       *)
(* returns None after st.error, raises, or returns a buffer; word_document *)
(* is the document the buffer then holds, as the sequence of its blocks.   *)
(***************************************************************************)
\* a variant of the entry check that compares without stripping
save_analysis_unstripped(analysis_output) ==
    IF analysis_output.k = "None" THEN "None"
    ELSE IF analysis_output.k # "str" THEN "AttributeError"
    ELSE IF analysis_output.v = <<>> THEN "None"
    ELSE "buffer"

save_analysis_to_word(analysis_output) ==
    IF analysis_output.k = "None" THEN "None"
    ELSE IF analysis_output.k # "str" THEN "AttributeError"
    ELSE IF Strip(analysis_output.v) = <<>> THEN "None"
    ELSE "buffer"

\* doc.add_heading(text, level), doc.add_paragraph(text, style) and
\* doc.add_paragraph() with the runs added to it
Block(kind, level, text, runs) == [kind |-> kind, level |-> level, text |-> text, runs |-> runs]
Run(text, bold) == [text |-> text, bold |-> bold]

\* analysis_output.split('\n')
RECURSIVE SplitLines(_, _)
SplitLines(s, i) ==
    IF i > Len(s) THEN <<s>>
    ELSE IF s[i] = "\n"
    THEN <<SubSeq(s, 1, i - 1)>> \o SplitLines(SubSeq(s, i + 1, Len(s)), 1)
    ELSE SplitLines(s, i + 1)

\* a variant of the split that leaves out the empty pieces
RECURSIVE re_split_bold_nonempty(_)
re_split_bold_nonempty(line) ==
    LET Cut(p, q) ==
            IF q = 0 THEN (IF line = <<>> THEN <<>> ELSE <<line>>)
            ELSE (IF p = 1 THEN <<>> ELSE <<SubSeq(line, 1, p - 1)>>)
                 \o <<SubSeq(line, p, q + 1)>>
                 \o re_split_bold_nonempty(SubSeq(line, q + 2, Len(line)))
        Open(p) == Cut(p, IF p = 0 THEN 0 ELSE FindText(line, <<"*", "*">>, p + 2))
    IN  Open(FindText(line, <<"*", "*">>, 1))

\* re.split(r'(\*\*.*?\*\*)', line): the leftmost pair of asterisks opens a
\* match, the nearest pair after it closes it; the pieces between matches,
\* empty ones too, alternate with the matches
RECURSIVE re_split_bold(_)
re_split_bold(line) ==
    LET Cut(p, q) ==
            IF q = 0 THEN <<line>>
            ELSE <<SubSeq(line, 1, p - 1), SubSeq(line, p, q + 1)>>
                 \o re_split_bold(SubSeq(line, q + 2, Len(line)))
        Open(p) == Cut(p, IF p = 0 THEN 0 ELSE FindText(line, <<"*", "*">>, p + 2))
    IN  Open(FindText(line, <<"*", "*">>, 1))

\* lines 506-534: the block added for one stripped line
line_block(line) ==
    LET \* re.match(r'^\d+\.', line): j is where the digits from 1 on end
        AfterDigits(j) == j > 1 /\ j <= Len(line) /\ line[j] = "."
        \* lines 526-534: one run per piece
        Runs(parts) ==
            [i \in 1..Len(parts) |->
                IF StartsWith(parts[i], <<"*", "*">>) /\ EndsWith(parts[i], <<"*", "*">>)
                THEN Run(SliceFromTo(parts[i], 2, 2), TRUE)
                ELSE Run(parts[i], FALSE)]
    IN  IF StartsWith(line, <<"#", "#", " ">>)
        THEN Block("heading", 2, SliceFromTo(line, 3, 0), <<>>)
        ELSE IF StartsWith(line, <<"#", "#", "#", " ">>)
        THEN Block("heading", 3, SliceFromTo(line, 4, 0), <<>>)
        ELSE IF StartsWith(line, <<"#", "#", "#", "#", " ">>)
        THEN Block("heading", 4, SliceFromTo(line, 5, 0), <<>>)
        ELSE IF StartsWith(line, <<"-", " ">>)
        THEN Block("List Bullet", 0, SliceFromTo(line, 2, 0), <<>>)
        ELSE IF AfterDigits(ScanDigits(line, 1))
        THEN Block("List Number", 0, line, <<>>)
        ELSE Block("paragraph", 0, <<>>, Runs(re_split_bold(line)))

ReportTitle ==
    <<"F", "i", "l", "e", "d", " ", "A", "p", "p", "l", "i", "c", "a", "t", "i", "o", "n", " ",
      "A", "n", "a", "l", "y", "s", "i", "s", " ", "R", "e", "s", "u", "l", "t", "s">>

\* lines 500-534: the document built for a non-blank str
word_document(text) ==
    LET Blocks(lines) == [i \in 1..Len(lines) |-> line_block(Strip(lines[i]))]
    IN  <<Block("heading", 1, ReportTitle, <<>>)>> \o Blocks(SplitLines(text, 1))

(***************************************************************************)
(* app11: one run of the script.  A run threads a context c through the    *)
(* script's blocks: the session state, the temporary files on disk, and a  *)
(* record of what the run did (the calls made, the messages shown, the     *)
(* widgets rendered, the session keys assigned, an uncaught exception).    *)
(***************************************************************************)
ResultKeys ==
    {"conflict_results", "foundational_claim", "cited_documents", "figure_analysis",
     "filed_application_analysis", "pending_claims_analysis"}

\* lines 543-556: the session state of a new session
NewSessionState ==
    [conflict_results |-> PyNone, foundational_claim |-> PyNone, figure_analysis |-> PyNone,
     filed_application_analysis |-> PyNone, cited_documents |-> PyNone,
     pending_claims_analysis |-> PyNone, pending_claims_available |-> PyStr(<<"N", "o">>)]

Yes == PyStr(<<"Y", "e", "s">>)
No == PyStr(<<"N", "o">>)

StartRun(ss, files) ==
    [ss |-> ss, temp_files |-> files, calls |-> <<>>, msgs |-> {}, offered |-> {},
     buttons |-> {}, writes |-> {}, downloads |-> {}, exception |-> "none"]

Assign(c, key, val) == [c EXCEPT !.ss[key] = val, !.writes = @ \cup {key}]
Show(c, kind, text) == [c EXCEPT !.msgs = @ \cup {<<kind, text>>}]
Raise(c, e) == [c EXCEPT !.exception = e]
Expander(c, step) == [c EXCEPT !.offered = @ \cup {step}]
Button(c, label) == [c EXCEPT !.buttons = @ \cup {label}]
Download(c, key) == [c EXCEPT !.downloads = @ \cup {key}]
\* a call of one of the LLM functions: the document text it was given (whether
\* it was empty), the outcome of its API call and the value it returned
LogCall(c, fn, text, outcome, returned) ==
    [c EXCEPT !.calls = Append(@, [fn |-> fn, text_empty |-> (text = <<>>),
                                   outcome |-> outcome, returned |-> returned])]
\* with open(path, "wb") ... ; extract_text_from_pdf(path); os.remove(path)
WriteExtractRemove(c, path) == [c EXCEPT !.temp_files = (@ \cup {path}) \ {path}]

\* docx_buffer = save_analysis_to_word(x); if docx_buffer: st.download_button(key)
ExportAndOffer(c, x, key) ==
    LET Offer(out) ==
            IF out = "AttributeError" THEN Raise(c, "AttributeError")
            ELSE IF out = "None" THEN Show(c, "error", "Analysis data is missing or empty.")
            ELSE Download(c, key)
    IN  Offer(save_analysis_to_word(x))

(***************************************************************************)
(* The four step blocks.  Each is a chain of local operators that take the *)
(* context and the values computed so far; the chain is written bottom up, *)
(* so the source's order is read from IN upwards.                          *)
(***************************************************************************)
\* a variant of lines 584-590 that clears the results of the later stages
Step1StoreClearingLater(c, conflict_results_raw) ==
    LET Fields(c1) ==
            IF ~HasGet(conflict_results_raw) THEN Raise(c1, "AttributeError")
            ELSE Show(Assign(Assign(c1, "foundational_claim",
                                    DictGet(conflict_results_raw, Key_foundational_claim,
                                            PyStr(<<>>))),
                             "cited_documents",
                             DictGet(conflict_results_raw, Key_documents_referenced,
                                     PyList(<<>>))),
                      "success", "Conflicts checked successfully!")
    IN  IF Truthy(conflict_results_raw)
        THEN Fields(Assign(Assign(c, "figure_analysis", PyNone), "conflict_results",
                           conflict_results_raw))
        ELSE Show(c, "error", "Failed to check for conflicts.")

\* Step 1, lines 584-590: c has the check_for_conflicts call logged
Step1Store(c, conflict_results_raw) ==
    LET \* lines 586-588: c1 has conflict_results assigned
        Fields(c1) ==
            IF ~HasGet(conflict_results_raw) THEN Raise(c1, "AttributeError")
            ELSE Show(Assign(Assign(c1, "foundational_claim",
                                    DictGet(conflict_results_raw, Key_foundational_claim,
                                            PyStr(<<>>))),
                             "cited_documents",
                             DictGet(conflict_results_raw, Key_documents_referenced,
                                     PyList(<<>>))),
                      "success", "Conflicts checked successfully!")
    IN  IF Truthy(conflict_results_raw)
        THEN Fields(Assign(c, "conflict_results", conflict_results_raw))
        ELSE Show(c, "error", "Failed to check for conflicts.")

\* Step 1, lines 569-594.  o1, o2: the outcomes of the two LLM calls
Step1(c, clicked, file, o1, o2) ==
    LET \* line 583
        Conflicts(c3, text, conflict_results_raw) ==
            Step1Store(LogCall(c3, "check_for_conflicts", text, o2, conflict_results_raw),
                       conflict_results_raw)
        \* lines 581-592
        Domain(c2, text, domain_expertise) ==
            IF Truthy(domain_expertise)
            THEN Conflicts(LogCall(c2, "determine_domain_expertise", text, o1, domain_expertise),
                           text, check_for_conflicts(o2))
            ELSE Show(LogCall(c2, "determine_domain_expertise", text, o1, domain_expertise),
                      "error", "Failed to determine domain expertise.")
        \* lines 573-594: c1 has the expander, the uploader and the button rendered
        Clicked(c1) ==
            IF clicked # "Check for Conflicts" THEN c1
            ELSE IF ~Uploaded(file)
            THEN Show(c1, "warning", "Please upload the examiner document first.")
            ELSE Domain(WriteExtractRemove(c1, "temp_examiner.pdf"),
                        extract_text_from_pdf(file), determine_domain_expertise(o1))
    IN  Clicked(Button(Expander(c, "Step 1"), "Check for Conflicts"))

\* extract_figures_and_text (lines 145-230): the two .get calls on the stored
\* conflict result come before the try block
extract_figures_and_text(conflict_results, outcome) ==
    IF ~HasGet(conflict_results) THEN [raised |-> TRUE, val |-> PyNone]
    ELSE [raised |-> FALSE, val |-> parse_json_reply(outcome)]

\* Step 2, lines 603-623
Step2(c, clicked, file, o1) ==
    LET \* lines 617-621: c3 has the call logged
        Store(c3, figure_analysis_results) ==
            IF Truthy(figure_analysis_results)
            THEN Show(Assign(c3, "figure_analysis", figure_analysis_results), "success",
                      "Figure analysis completed successfully!")
            ELSE Show(c3, "error", "Failed to analyze figures and cited text.")
        \* line 616: r is what extract_figures_and_text did
        Call(c2, text, r) ==
            IF r.raised THEN Raise(c2, "AttributeError")
            ELSE Store(LogCall(c2, "extract_figures_and_text", text, o1, r.val), r.val)
        \* lines 608-623
        Clicked(c1) ==
            IF clicked # "Analyze Figures and Cited Text" THEN c1
            ELSE IF ~Uploaded(file)
            THEN Show(c1, "warning", "Please upload the referenced document first.")
            ELSE Call(WriteExtractRemove(c1, "temp_referenced.pdf"), extract_text_from_pdf(file),
                      extract_figures_and_text(c1.ss.conflict_results, o1))
    IN  IF c.ss.conflict_results = PyNone THEN c
        ELSE Clicked(Button(Expander(c, "Step 2"), "Analyze Figures and Cited Text"))

\* Step 3, lines 626-670
Step3(c, clicked, file, o1, o2) ==
    LET \* lines 653-666: c5 has the call logged
        Store(c5, analysis_results) ==
            IF Truthy(analysis_results)
            THEN ExportAndOffer(Show(Assign(c5, "filed_application_analysis", analysis_results),
                                     "success",
                                     "Filed application analysis completed successfully!"),
                                analysis_results, "filed_application_download")
            ELSE Show(c5, "error", "Failed to analyze the filed application.")
        \* lines 648-652: c4 has the details stored
        Analyze(c4, filed_app_details_json, analysis_results) ==
            Store(LogCall(c4, "analyze_filed_application", filed_app_details_json, o2,
                          analysis_results),
                  analysis_results)
        \* lines 644-645
        Details(c3, filed_app_details_json) ==
            Analyze(Assign(c3, "filed_application_analysis", PyStr(filed_app_details_json)),
                    filed_app_details_json, analyze_filed_application(o2))
        \* lines 639-668
        Call(c2, text, filed_app_details) ==
            IF Truthy(filed_app_details)
            THEN Details(LogCall(c2, "extract_details_from_filed_application", text, o1,
                                 filed_app_details),
                         json_dumps_indent2(filed_app_details))
            ELSE Show(LogCall(c2, "extract_details_from_filed_application", text, o1,
                              filed_app_details),
                      "error", "Failed to analyze the filed application.")
        \* lines 631-670
        Clicked(c1) ==
            IF clicked # "Analyze Filed Application" THEN c1
            ELSE IF ~Uploaded(file)
            THEN Show(c1, "warning", "Please upload the filed application first.")
            ELSE Call(WriteExtractRemove(c1, "temp_filed.pdf"), extract_text_from_pdf(file),
                      extract_details_from_filed_application(o1))
    IN  IF c.ss.figure_analysis = PyNone THEN c
        ELSE Clicked(Button(Expander(c, "Step 3"), "Analyze Filed Application"))

\* Step 4, lines 673-714.  radio: the option the radio widget returns.  What
\* st.json draws for its argument is Streamlit's business; the run only
\* records that it was asked to.
Step4(c, clicked, file, radio, o1) ==
    LET \* lines 696-712: c4 has the call logged
        Store(c4, pending_claims_analysis_results) ==
            IF Truthy(pending_claims_analysis_results)
            THEN ExportAndOffer(
                     Show(Show(Assign(c4, "pending_claims_analysis",
                                      pending_claims_analysis_results),
                               "success", "Pending claims analysis completed successfully!"),
                          "json", "pending_claims_analysis_results"),
                     pending_claims_analysis_results, "pending_claims_download")
            ELSE Show(c4, "error", "Failed to analyze the pending claims.")
        \* lines 690-695
        Call(c3, text, pending_claims_analysis_results) ==
            Store(LogCall(c3, "analyze_modified_application", text, o1,
                          pending_claims_analysis_results),
                  pending_claims_analysis_results)
        \* lines 682-714
        Clicked(c2) ==
            IF clicked # "Analyze Pending Claims" THEN c2
            ELSE IF ~Uploaded(file)
            THEN Show(c2, "warning", "Please upload the pending claims document first.")
            ELSE Call(WriteExtractRemove(c2, "temp_pending_claims.pdf"),
                      extract_text_from_pdf(file), analyze_modified_application(o1))
        \* lines 676-680: c1 has the radio's option stored
        Radio(c1) ==
            IF c1.ss.pending_claims_available # Yes THEN c1
            ELSE Clicked(Button(c1, "Analyze Pending Claims"))
    IN  IF c.ss.filed_application_analysis = PyNone THEN c
        ELSE Radio(Assign(Expander(c, "Step 4"), "pending_claims_available", radio))

\* lines 717-726
FinalDownload(c) ==
    IF Truthy(c.ss.filed_application_analysis) /\ c.ss.pending_claims_analysis = PyNone
    THEN ExportAndOffer(c, c.ss.filed_application_analysis, "filed_application_final_download")
    ELSE c

(***************************************************************************)
(* One run of the script, top to bottom.  An uncaught exception ends the   *)
(* run: the blocks after it are not executed.                              *)
(* ss, files: the session state and the temporary files the run starts     *)
(* from; clicked: the button whose click caused the run, or "none"; file:  *)
(* what the uploader next to that button holds; radio: the option the Step *)
(* 4 radio returns; o1, o2: the outcomes of the run's LLM calls, in order. *)
(* The table of cited documents (lines 597-600) only displays a stored     *)
(* value and is left out.                                                  *)
(***************************************************************************)
ScriptRun(ss, files, file, clicked, radio, o1, o2) ==
    LET Raised(c) == c.exception # "none"
        Final(c) == IF Raised(c) THEN c ELSE FinalDownload(c)
        Fourth(c) == Final(IF Raised(c) THEN c ELSE Step4(c, clicked, file, radio, o1))
        Third(c) == Fourth(IF Raised(c) THEN c ELSE Step3(c, clicked, file, o1, o2))
        Second(c) == Third(IF Raised(c) THEN c ELSE Step2(c, clicked, file, o1))
    IN  Second(Step1(StartRun(ss, files), clicked, file, o1, o2))

(***************************************************************************)
(* app10: one run of the script (lines 116-177).  app10 has no exception   *)
(* handling at all: whatever fitz or the API client raises ends the run.   *)
(* The run context is the one of app11.                                    *)
(***************************************************************************)
\* a variant of the loop below that puts each page before the text so far
RECURSIVE FlatReversed(_)
FlatReversed(pages) == IF pages = <<>> THEN <<>> ELSE FlatReversed(Tail(pages)) \o Head(pages)

\* lines 24-27: full_text += page.get_text("text"), page after page
RECURSIVE Flat(_)
Flat(pages) == IF pages = <<>> THEN <<>> ELSE Head(pages) \o Flat(Tail(pages))

\* app10's extract_text_from_pdf, lines 19-30: the page texts concatenated;
\* fitz.open raises on a file it cannot read
app10_extract_text_from_pdf(file) == [raised |-> ~file.readable, text |-> Flat(file.pages)]

\* lines 120-123
NewSessionState10 == [referenced_documents |-> <<>>, conflict_results |-> <<>>]

\* lines 63-71 and 107-113: the reply's content, or the client's exception
app10_llm_call(outcome) ==
    IF outcome.k = "APIError" THEN [raised |-> TRUE, val |-> PyNone]
    ELSE [raised |-> FALSE, val |-> PyStr(outcome.v)]

\* the labels of the reply (lines 49-53)
Marker ==
    [FOUNDATIONAL_CLAIM |-> <<"F", "O", "U", "N", "D", "A", "T", "I", "O", "N", "A", "L", " ",
                              "C", "L", "A", "I", "M", ":">>,
     DOCUMENTS_REFERENCED |-> <<"D", "O", "C", "U", "M", "E", "N", "T", "S", " ",
                                "R", "E", "F", "E", "R", "E", "N", "C", "E", "D", ":">>,
     FIG |-> <<"F", "I", "G", ":">>,
     TEXT |-> <<"T", "E", "X", "T", ":">>]

\* a fallback that itself carries the labels
Figure_details_labeled == Marker.FIG \o <<"?">> \o Marker.TEXT

\* "No figure details found." and "No technical text found." (lines 78-79)
No_figure_details_found ==
    <<"N", "o", " ", "f", "i", "g", "u", "r", "e", " ", "d", "e", "t", "a", "i", "l", "s", " ",
      "f", "o", "u", "n", "d", ".">>
No_technical_text_found ==
    <<"N", "o", " ", "t", "e", "c", "h", "n", "i", "c", "a", "l", " ", "t", "e", "x", "t", " ",
      "f", "o", "u", "n", "d", ".">>

\* re.search(marker(.*?)(?=stop), text, re.DOTALL), and with stop empty
\* re.search(marker(.*), text, re.DOTALL): whether it matched, and group(1).
\* The search settles on the leftmost marker; a stop after a later marker
\* would be a stop after the leftmost one too.
re_search_section(text, marker, stop) ==
    LET NoMatch == [found |-> FALSE, group |-> <<>>]
        Close(p, q) ==
            IF q = 0 THEN NoMatch
            ELSE [found |-> TRUE, group |-> SubSeq(text, p + Len(marker), q - 1)]
        Open(p) ==
            IF p = 0 THEN NoMatch
            ELSE IF stop = <<>>
            THEN [found |-> TRUE, group |-> SubSeq(text, p + Len(marker), Len(text))]
            ELSE Close(p, FindText(text, stop, p + Len(marker)))
    IN  Open(FindText(text, marker, 1))

\* lines 75-79 of extract_figures_and_text: fig_details and text_details
labeled_sections(conflict_results) ==
    LET Details(section, fallback) ==
            IF section.found THEN Strip(section.group) ELSE fallback
    IN  [fig_details |->
            Details(re_search_section(conflict_results, Marker.FIG, Marker.TEXT),
                    No_figure_details_found),
         text_details |->
            Details(re_search_section(conflict_results, Marker.TEXT, <<>>),
                    No_technical_text_found)]

\* lines 163-166: the foundational claim the script displays, None when it
\* displays none
displayed_foundational_claim(conflict_results_raw) ==
    LET Shown(section) == IF section.found THEN PyStr(Strip(section.group)) ELSE PyNone
    IN  Shown(re_search_section(conflict_results_raw, Marker.FOUNDATIONAL_CLAIM,
                                Marker.DOCUMENTS_REFERENCED))

\* lines 141-154: the loop over the uploaded referenced files
RECURSIVE App10Loop(_, _)
App10Loop(c, ref_files) ==
    LET \* r is what the extraction did
        Referenced(c1, uploaded_file, r) ==
            IF r.raised THEN Raise(c1, "FileDataError")
            ELSE [c1 EXCEPT !.ss.referenced_documents =
                               Append(@, [file_name |-> uploaded_file.name, text |-> r.text])]
        Written(uploaded_file) ==
            [c EXCEPT !.temp_files = @ \cup {<<"temp_referenced", uploaded_file.name>>}]
    IN  IF ref_files = <<>> \/ c.exception # "none" THEN c
        ELSE App10Loop(Referenced(Written(Head(ref_files)), Head(ref_files),
                                  app10_extract_text_from_pdf(Head(ref_files).file)),
                       Tail(ref_files))

\* line 149: referenced_documents_text
RECURSIVE App10Text(_)
App10Text(ref_files) ==
    IF ref_files = <<>> THEN <<>>
    ELSE <<Head(ref_files).name, ":", "\n">> \o Flat(Head(ref_files).file.pages)
         \o <<"\n", "\n">> \o App10Text(Tail(ref_files))

\* lines 116-177.  The uploaders a run renders are recorded in the context's
\* field "offered".  The regular expression of line 163 only selects what is
\* displayed.
App10ScriptRun(ss, files, action_file, ref_files, clicked, o1, o2) ==
    LET \* lines 169-171: the button nested in the block of the first button
        Figures(c5, conflict_results_raw, r) ==
            IF clicked # "Analyze Figures" THEN c5
            ELSE IF r.raised
            THEN Raise(LogCall(c5, "extract_figures_and_text", conflict_results_raw.v, o2,
                               r.val), "APIError")
            ELSE Show(LogCall(c5, "extract_figures_and_text", conflict_results_raw.v, o2,
                              r.val), "text_area", "Figure Analysis")
        \* lines 159-171: r is what check_for_conflicts did
        Conflicts(c4, r) ==
            IF r.raised THEN Raise(c4, "APIError")
            ELSE Figures(Button([c4 EXCEPT !.ss.conflict_results = Append(@, r.val)],
                                "Analyze Figures"),
                         r.val, app10_llm_call(o2))
        \* lines 157-159: c3 has gone round the loop
        AfterLoop(c3, text, r) ==
            IF c3.exception # "none" THEN c3
            ELSE IF clicked # "Check for Conflicts" THEN Button(c3, "Check for Conflicts")
            ELSE Conflicts(LogCall(Button(c3, "Check for Conflicts"), "check_for_conflicts",
                                   text, o1, r.val), r)
        \* lines 136-171: c2 has the action file written; r is what extracting it did
        Uploads(c2, r) ==
            IF r.raised THEN Raise(c2, "FileDataError")
            ELSE IF ref_files = <<>> THEN Expander(c2, "referenced")
            ELSE AfterLoop(App10Loop(Expander(c2, "referenced"), ref_files),
                           r.text \o App10Text(ref_files), app10_llm_call(o1))
        \* lines 127-133
        Action(c1) ==
            IF ~action_file.present THEN c1
            ELSE Uploads([c1 EXCEPT !.temp_files = @ \cup {<<"temp_action">>}],
                         app10_extract_text_from_pdf(action_file))
        \* lines 174-177
        Stored(c6) ==
            IF c6.exception = "none" /\ c6.ss.conflict_results # <<>>
            THEN Show(c6, "subheader", "Stored Conflict Analysis Results")
            ELSE c6
    IN  Stored(Action(Expander(StartRun(ss, files), "action")))

(***************************************************************************)
(* The replies check_for_conflicts is applied to on its own: an object of  *)
(* the shape the prompt asks for (lines 100-107), serialised, and wrapped  *)
(* the ways a chat model wraps its answers                                 *)
(***************************************************************************)
MaxDocs == 2
DocNames == {<<"A">>, <<"B">>}
DocLists == UNION {[1..n -> DocNames] : n \in 0..MaxDocs}

ReplyObjects ==
    {ConflictObject(claim, docs, figs, <<"Y">>) :
        claim \in {<<"X">>, <<>>}, docs \in DocLists, figs \in {<<>>, << <<"1">> >>}}

Intro == <<"H", "e", "r", "e", ":">>
Outro == <<"D", "o", "n", "e", ".">>

\* the reply text: the object serialised, fenced or not, with prose before or
\* after it or not, with blank space around it or not
ReplyText(object, fence, style, before, after, padded) ==
    LET Serialised == IF style = "compact" THEN Compact(object) ELSE Spaced(object)
        Fenced(body) ==
            IF fence = "json" THEN InJsonFence(body)
            ELSE IF fence = "bare" THEN InBareFence(body)
            ELSE body
        Around(text) ==
            (IF before THEN Intro \o <<"\n">> ELSE <<>>) \o text
            \o (IF after THEN <<"\n">> \o Outro ELSE <<>>)
        Padded(text) == IF padded THEN <<"\n", " ">> \o text \o <<" ", "\n">> ELSE text
    IN  Padded(Around(Fenced(Serialised)))

Replies ==
    {[object |-> object, fence |-> fence, before |-> before, after |-> after,
      text |-> ReplyText(object, fence, style, before, after, padded)] :
        object \in ReplyObjects, fence \in {"json", "bare", "none"},
        style \in {"compact", "spaced"}, before \in BOOLEAN, after \in BOOLEAN,
        padded \in BOOLEAN}

(***************************************************************************)
(* State                                                                   *)
(***************************************************************************)
VARIABLES
    session_state,         \* app11: st.session_state
    temp_files,            \* app11: the temporary files on disk
    run,                   \* app11: what the latest script run did
    result_ok,             \* app11: per result key, whether the stage execution that
                           \* assigned the stored value went on to report success
    reply,                 \* parser: the reply under test and how it was built
    parsed,                \* parser: what check_for_conflicts returned for it
    parse_pc,              \* parser: "idle", "input" or "parsed"
    session_state10,       \* app10: st.session_state
    uploaded_action_file,  \* app10: the file in the first uploader
    uploaded_ref_files,    \* app10: the files in the second uploader
    temp_files10,          \* app10: the temporary files on disk
    run10,                 \* app10: what the latest script run did
    analysis_output,       \* exporter: the value under test and how it was built
    exported,              \* exporter: what save_analysis_to_word did with it
    export_pc,             \* exporter: "idle", "input" or "exported"
    pdf,                   \* extractor: the PDF file under test
    flat_text,             \* extractor: what app10's extract_text_from_pdf did with it
    paged_text,            \* extractor: what app11's extract_text_from_pdf returned for it
    disk,                  \* sessions: per temporary path, the file on disk (NoFile: none)
    last_written,          \* sessions: the file of the latest write, NoFile after a removal
    sessions               \* sessions: per session, its upload and how far its stage got

app11_vars == <<session_state, temp_files, run, result_ok>>
parse_vars == <<reply, parsed, parse_pc>>
app10_vars ==
    <<session_state10, uploaded_action_file, uploaded_ref_files, temp_files10, run10>>
unit_vars ==
    <<analysis_output, exported, export_pc, pdf, flat_text, paged_text,
      disk, last_written, sessions>>
vars == <<app11_vars, parse_vars, app10_vars, unit_vars>>

\* the files a user uploads: a one-page PDF or an unreadable one
UserFiles == {Pdf(<< <<"T">> >>), CorruptPdf}

RunRecord(c, clicked) ==
    [clicked |-> clicked, calls |-> c.calls, msgs |-> c.msgs, offered |-> c.offered,
     buttons |-> c.buttons, writes |-> c.writes, downloads |-> c.downloads,
     exception |-> c.exception]

ReportedSuccess(c) == \E m \in c.msgs : m[1] = "success"

\* the state a script run of app11 leaves behind
Finish(c, clicked) ==
    /\ session_state' = c.ss
    /\ temp_files' = c.temp_files
    /\ run' = RunRecord(c, clicked)
    /\ result_ok' = [key \in ResultKeys |->
                        IF key \in c.writes THEN ReportedSuccess(c) ELSE result_ok[key]]

\* the radio of Step 4 returns the stored option until the user picks another
RadioValue == session_state.pending_claims_available

NoReply == APIError

InitApp11 ==
    /\ session_state = NewSessionState
    /\ temp_files = {}
    /\ run = RunRecord(ScriptRun(NewSessionState, {}, NoFile, "none", No, NoReply, NoReply),
                       "none")
    /\ result_ok = [key \in ResultKeys |-> FALSE]

IdleReply == [object |-> PyNone, fence |-> "none", before |-> FALSE, after |-> FALSE,
              text |-> <<>>]

InitParseIdle ==
    /\ reply = IdleReply
    /\ parsed = PyNone
    /\ parse_pc = "idle"

InitApp10 ==
    /\ session_state10 = NewSessionState10
    /\ uploaded_action_file = NoFile
    /\ uploaded_ref_files = <<>>
    /\ temp_files10 = {}
    /\ run10 = RunRecord(App10ScriptRun(NewSessionState10, {}, NoFile, <<>>, "none",
                                        NoReply, NoReply), "none")

MaxLineLen == 4
MaxPages == 3
MaxSessions == 2

\* a variant of the path below that gives each session a file of its own
TempPathPerSession(s) == <<"temp_examiner.pdf", s>>

\* line 575: the path session s writes its upload to
TempPath(s) == <<"temp_examiner.pdf">>

NotExported == [outcome |-> "None", document |-> <<>>, msgs |-> {}, downloads |-> {},
                exception |-> "none"]

\* the sequences of up to n elements of S
RECURSIVE SeqsUpTo(_, _)
SeqsUpTo(S, n) ==
    IF n = 0 THEN {<<>>}
    ELSE LET Longer(shorter) == shorter \cup {<<x>> \o t : x \in S, t \in shorter}
         IN  Longer(SeqsUpTo(S, n - 1))

\* the values under test: the text "## title\n- item\n**bold**rest", short
\* lines, blank texts, None, and what analyze_filed_application returns
ExportInputs ==
    LET Input(shape, title, item, bold, rest, value) ==
            [shape |-> shape, title |-> title, item |-> item, bold |-> bold, rest |-> rest,
             value |-> value]
        Markdown(title, item, bold, rest) ==
            Input("markdown", title, item, bold, rest,
                  PyStr(<<"#", "#", " ">> \o title \o <<"\n", "-", " ">> \o item
                        \o <<"\n", "*", "*">> \o bold \o <<"*", "*">> \o rest))
        Other(shape, value) == Input(shape, <<>>, <<>>, <<>>, <<>>, value)
    IN  {Markdown(title, item, bold, rest) :
            title \in {<<"T", "i", "t", "l", "e">>, <<"T">>},
            item \in {<<"i", "t", "e", "m", " ", "o", "n", "e">>, <<"i">>},
            bold \in {<<"b", "o", "l", "d">>, <<"b">>},
            rest \in {<<" ", "r", "e", "s", "t">>, <<"r">>}}
        \cup {Other("line", PyStr(line)) : line \in SeqsUpTo({"*", "a", " "}, MaxLineLen)}
        \cup {Other("blank", PyStr(text)) :
                 text \in {<<>>, <<" ">>, <<"\n">>, <<" ", "\n", "\t", " ">>}}
        \cup {Other("none", PyNone)}
        \cup {Other("json", analyze_filed_application(outcome)) : outcome \in AnalysisOutcomes}

\* the variables of the units taken on their own; unit names the one that
\* is given its inputs, the others stay idle
InitUnits(unit) ==
    /\ IF unit = "export"
       THEN analysis_output \in ExportInputs /\ export_pc = "input"
       ELSE /\ analysis_output = [shape |-> "none", title |-> <<>>, item |-> <<>>,
                                  bold |-> <<>>, rest |-> <<>>, value |-> PyNone]
            /\ export_pc = "idle"
    /\ exported = NotExported
    /\ IF unit = "extract"
       THEN pdf \in {Pdf(pages) : pages \in SeqsUpTo({<<>>, <<"a">>, <<"b", "\n">>}, MaxPages)}
                       \cup {CorruptPdf}
       ELSE pdf = NoFile
    /\ flat_text = PyNone
    /\ paged_text = PyNone
    /\ disk = [path \in {TempPath(s) : s \in 1..MaxSessions} |-> NoFile]
    /\ last_written = NoFile
    /\ IF unit = "sessions"
       THEN sessions \in [1..MaxSessions ->
                             {[pc |-> "write", upload |-> Pdf(<< <<ch>> >>), text |-> PyNone,
                               exception |-> "none"] : ch \in {"A", "B"}}]
       ELSE sessions = [s \in 1..MaxSessions |->
                           [pc |-> "idle", upload |-> NoFile, text |-> PyNone,
                            exception |-> "none"]]

Init == InitApp11 /\ InitParseIdle /\ InitApp10 /\ InitUnits("none")

(***************************************************************************)
(* app11: the user's events; each one reruns the whole script.  file is    *)
(* what the uploader next to the clicked button holds at that moment.      *)
(***************************************************************************)
ClickCheckForConflicts ==
    /\ "Check for Conflicts" \in run.buttons
    /\ \E file \in UserFiles \cup {NoFile}, o1 \in DomainOutcomes, o2 \in ConflictOutcomes :
          \E c \in {ScriptRun(session_state, temp_files, file, "Check for Conflicts",
                              RadioValue, o1, o2)} :
             Finish(c, "Check for Conflicts")
    /\ UNCHANGED <<parse_vars, app10_vars, unit_vars>>

ClickAnalyzeFigures ==
    /\ "Analyze Figures and Cited Text" \in run.buttons
    /\ \E file \in UserFiles \cup {NoFile}, o1 \in FigureOutcomes :
          \E c \in {ScriptRun(session_state, temp_files, file,
                              "Analyze Figures and Cited Text", RadioValue, o1, NoReply)} :
             Finish(c, "Analyze Figures and Cited Text")
    /\ UNCHANGED <<parse_vars, app10_vars, unit_vars>>

ClickAnalyzeFiledApplication ==
    /\ "Analyze Filed Application" \in run.buttons
    /\ \E file \in UserFiles \cup {NoFile}, o1 \in DetailsOutcomes, o2 \in AnalysisOutcomes :
          \E c \in {ScriptRun(session_state, temp_files, file, "Analyze Filed Application",
                              RadioValue, o1, o2)} :
             Finish(c, "Analyze Filed Application")
    /\ UNCHANGED <<parse_vars, app10_vars, unit_vars>>

ClickAnalyzePendingClaims ==
    /\ "Analyze Pending Claims" \in run.buttons
    /\ \E file \in UserFiles \cup {NoFile}, o1 \in AnalysisOutcomes :
          \E c \in {ScriptRun(session_state, temp_files, file, "Analyze Pending Claims",
                              RadioValue, o1, NoReply)} :
             Finish(c, "Analyze Pending Claims")
    /\ UNCHANGED <<parse_vars, app10_vars, unit_vars>>

\* the user picks the other option of the Step 4 radio
SelectPendingClaimsAvailable ==
    /\ "Step 4" \in run.offered
    /\ \E option \in {Yes, No} :
          /\ option # session_state.pending_claims_available
          /\ \E c \in {ScriptRun(session_state, temp_files, NoFile, "none", option,
                                 NoReply, NoReply)} :
                Finish(c, "none")
    /\ UNCHANGED <<parse_vars, app10_vars, unit_vars>>

\* any other interaction: choosing a file in an uploader, a download button
Rerun ==
    /\ \E c \in {ScriptRun(session_state, temp_files, NoFile, "none", RadioValue,
                           NoReply, NoReply)} :
          Finish(c, "none")
    /\ UNCHANGED <<parse_vars, app10_vars, unit_vars>>

Next ==
    \/ ClickCheckForConflicts
    \/ ClickAnalyzeFigures
    \/ ClickAnalyzeFiledApplication
    \/ ClickAnalyzePendingClaims
    \/ SelectPendingClaimsAvailable
    \/ Rerun

Spec == Init /\ [][Next]_vars

(***************************************************************************)
(* The Report Exporter on its own: a value is drawn, the script hands it   *)
(* to save_analysis_to_word and offers the download (lines 656-666).       *)
(***************************************************************************)
ApplySaveAnalysisToWord ==
    /\ export_pc = "input"
    /\ \E c \in {ExportAndOffer(StartRun(NewSessionState, {}), analysis_output.value,
                                  "filed_application_download")} :
          \E outcome \in {save_analysis_to_word(analysis_output.value)} :
             exported' = [outcome |-> outcome,
                          document |-> IF outcome = "buffer"
                                       THEN word_document(analysis_output.value.v)
                                       ELSE <<>>,
                          msgs |-> c.msgs, downloads |-> c.downloads,
                          exception |-> c.exception]
    /\ export_pc' = "exported"
    /\ UNCHANGED <<analysis_output, pdf, flat_text, paged_text, disk, last_written, sessions>>
    /\ UNCHANGED <<app11_vars, parse_vars, app10_vars>>

InitExport == InitApp11 /\ InitParseIdle /\ InitApp10 /\ InitUnits("export")

SpecExport == InitExport /\ [][ApplySaveAnalysisToWord]_vars

(***************************************************************************)
(* The Text Extractor on its own: a PDF is drawn and each variant's        *)
(* extract_text_from_pdf is applied to it.                                 *)
(***************************************************************************)
\* app10, line 132
ExtractFlat ==
    /\ flat_text = PyNone
    /\ flat_text' = app10_extract_text_from_pdf(pdf)
    /\ UNCHANGED <<pdf, paged_text, analysis_output, exported, export_pc>>
    /\ UNCHANGED <<disk, last_written, sessions>>
    /\ UNCHANGED <<app11_vars, parse_vars, app10_vars>>

\* app11, line 577
ExtractPaged ==
    /\ paged_text = PyNone
    /\ paged_text' = PyStr(extract_text_from_pdf(pdf))
    /\ UNCHANGED <<pdf, flat_text, analysis_output, exported, export_pc>>
    /\ UNCHANGED <<disk, last_written, sessions>>
    /\ UNCHANGED <<app11_vars, parse_vars, app10_vars>>

InitExtract == InitApp11 /\ InitParseIdle /\ InitApp10 /\ InitUnits("extract")

SpecExtract == InitExtract /\ [][ExtractFlat \/ ExtractPaged]_vars

(***************************************************************************)
(* Concurrent sessions of app11 in Step 1, each at lines 575-578 with an   *)
(* upload of its own: the server runs one script per session and the steps *)
(* of different sessions interleave.                                       *)
(***************************************************************************)
\* lines 575-576: with open("temp_examiner.pdf", "wb") as f: f.write(...)
SessionWrite ==
    \E s \in 1..MaxSessions :
       /\ sessions[s].pc = "write"
       /\ disk' = [disk EXCEPT ![TempPath(s)] = sessions[s].upload]
       /\ last_written' = sessions[s].upload
       /\ sessions' = [sessions EXCEPT ![s].pc = "extract"]
       /\ UNCHANGED <<analysis_output, exported, export_pc, pdf, flat_text, paged_text>>
       /\ UNCHANGED <<app11_vars, parse_vars, app10_vars>>

\* line 577: extract_text_from_pdf reads whatever the path holds; with no
\* file there fitz raises and the function returns ""
SessionExtract ==
    \E s \in 1..MaxSessions :
       /\ sessions[s].pc = "extract"
       /\ sessions' = [sessions EXCEPT
                          ![s].pc = "remove",
                          ![s].text = PyStr(extract_text_from_pdf(disk[TempPath(s)]))]
       /\ UNCHANGED <<disk, last_written>>
       /\ UNCHANGED <<analysis_output, exported, export_pc, pdf, flat_text, paged_text>>
       /\ UNCHANGED <<app11_vars, parse_vars, app10_vars>>

\* line 578: os.remove raises FileNotFoundError when the file is gone
SessionRemove ==
    \E s \in 1..MaxSessions :
       /\ sessions[s].pc = "remove"
       /\ IF disk[TempPath(s)] = NoFile
          THEN /\ sessions' = [sessions EXCEPT ![s].pc = "failed",
                                               ![s].exception = "FileNotFoundError"]
               /\ UNCHANGED <<disk, last_written>>
          ELSE /\ sessions' = [sessions EXCEPT ![s].pc = "done"]
               /\ disk' = [disk EXCEPT ![TempPath(s)] = NoFile]
               /\ last_written' = NoFile
       /\ UNCHANGED <<analysis_output, exported, export_pc, pdf, flat_text, paged_text>>
       /\ UNCHANGED <<app11_vars, parse_vars, app10_vars>>

InitSessions == InitApp11 /\ InitParseIdle /\ InitApp10 /\ InitUnits("sessions")

SpecSessions == InitSessions /\ [][SessionWrite \/ SessionExtract \/ SessionRemove]_vars

(***************************************************************************)
(* app10's labeled-section parser on its own: a reply is drawn and the     *)
(* regular expressions of lines 75-79 and 163 are applied to it.           *)
(***************************************************************************)
\* replies with any of the four labels present, in the prompt's order, each
\* followed by its content and a newline, after a lead without labels
LabeledReplies ==
    LET Section(present, name, content) ==
            IF name \in present THEN Marker[name] \o content \o <<"\n">> ELSE <<>>
        Labeled(present, lead, claim, docs, fig, tech) ==
            [present |-> present, claim |-> claim, docs |-> docs, fig |-> fig, tech |-> tech,
             text |-> lead \o Section(present, "FOUNDATIONAL_CLAIM", claim)
                          \o Section(present, "DOCUMENTS_REFERENCED", docs)
                          \o Section(present, "FIG", fig)
                          \o Section(present, "TEXT", tech)]
    IN  {Labeled(present, lead, <<"X">>, <<"A">>, fig, <<"Y">>) :
            present \in SUBSET DOMAIN Marker,
            lead \in {<<>>, No_figure_details_found, No_technical_text_found},
            fig \in {<<"1">>, <<" ", "F", "i", "g", " ", "2", " ">>}}

InitLabeled ==
    /\ InitApp11
    /\ InitApp10
    /\ InitUnits("none")
    /\ reply \in LabeledReplies
    /\ parsed = PyNone
    /\ parse_pc = "input"

ApplyLabeledSections ==
    /\ parse_pc = "input"
    /\ \E sections \in {labeled_sections(reply.text)} :
          parsed' = [foundational_claim |-> displayed_foundational_claim(reply.text),
                     fig_details |-> sections.fig_details,
                     text_details |-> sections.text_details]
    /\ parse_pc' = "parsed"
    /\ UNCHANGED <<reply, app11_vars, app10_vars, unit_vars>>

SpecLabeled == InitLabeled /\ [][ApplyLabeledSections]_vars

(***************************************************************************)
(* The parser on its own: a reply is drawn, check_for_conflicts is applied *)
(***************************************************************************)
InitParse ==
    /\ InitApp11
    /\ InitApp10
    /\ InitUnits("none")
    /\ reply \in Replies
    /\ parsed = PyNone
    /\ parse_pc = "input"

ApplyCheckForConflicts ==
    /\ parse_pc = "input"
    /\ parsed' = check_for_conflicts(Reply(reply.text))
    /\ parse_pc' = "parsed"
    /\ UNCHANGED <<reply, app11_vars, app10_vars, unit_vars>>

NextParse == ApplyCheckForConflicts

SpecParse == InitParse /\ [][NextParse]_vars

(***************************************************************************)
(* app10: the user's events; each one reruns the whole script              *)
(***************************************************************************)
MaxEntries == 4
MaxResults == 2

RefFile(name) == [name |-> name, file |-> Pdf(<< <<"T">> >>)]
RefUploads == {<<>>, <<RefFile("A")>>, <<RefFile("B")>>, <<RefFile("A"), RefFile("B")>>}

\* a plain-text reply with the labels the prompt asks for (lines 49-53)
LabeledReply ==
    <<"F", "O", "U", "N", "D", "A", "T", "I", "O", "N", "A", "L", " ", "C", "L", "A", "I", "M",
      ":", "X", "\n", "D", "O", "C", "U", "M", "E", "N", "T", "S", " ", "R", "E", "F", "E", "R",
      "E", "N", "C", "E", "D", ":", "A", "\n", "F", "I", "G", ":", "1", "\n", "T", "E", "X",
      "T", ":", "Y">>
App10Outcomes == {APIError, Reply(LabeledReply)}

\* the state a script run of app10 leaves behind; the two lists are capped
App10Finish(c, clicked) ==
    /\ Len(c.ss.referenced_documents) <= MaxEntries
    /\ Len(c.ss.conflict_results) <= MaxResults
    /\ session_state10' = c.ss
    /\ temp_files10' = c.temp_files
    /\ run10' = RunRecord(c, clicked)

App10Rerun(clicked, o1, o2) ==
    \E c \in {App10ScriptRun(session_state10, temp_files10, uploaded_action_file',
                             uploaded_ref_files', clicked, o1, o2)} :
       App10Finish(c, clicked)

App10UploadAction ==
    /\ \E file \in UserFiles \cup {NoFile} :
          /\ file # uploaded_action_file
          /\ uploaded_action_file' = file
    /\ UNCHANGED uploaded_ref_files
    /\ App10Rerun("none", NoReply, NoReply)
    /\ UNCHANGED <<app11_vars, parse_vars, unit_vars>>

App10UploadReferenced ==
    /\ "referenced" \in run10.offered
    /\ \E files \in RefUploads :
          /\ files # uploaded_ref_files
          /\ uploaded_ref_files' = files
    /\ UNCHANGED uploaded_action_file
    /\ App10Rerun("none", NoReply, NoReply)
    /\ UNCHANGED <<app11_vars, parse_vars, unit_vars>>

App10ClickCheckForConflicts ==
    /\ "Check for Conflicts" \in run10.buttons
    /\ UNCHANGED <<uploaded_action_file, uploaded_ref_files>>
    /\ \E o1 \in App10Outcomes : App10Rerun("Check for Conflicts", o1, NoReply)
    /\ UNCHANGED <<app11_vars, parse_vars, unit_vars>>

App10ClickAnalyzeFigures ==
    /\ "Analyze Figures" \in run10.buttons
    /\ UNCHANGED <<uploaded_action_file, uploaded_ref_files>>
    /\ \E o1 \in App10Outcomes, o2 \in App10Outcomes : App10Rerun("Analyze Figures", o1, o2)
    /\ UNCHANGED <<app11_vars, parse_vars, unit_vars>>

NextApp10 ==
    \/ App10UploadAction
    \/ App10UploadReferenced
    \/ App10ClickCheckForConflicts
    \/ App10ClickAnalyzeFigures

SpecApp10 == Init /\ [][NextApp10]_vars

(***************************************************************************)
(* Properties                                                              *)
(***************************************************************************)
Calls(r) == {r.calls[i] : i \in DOMAIN r.calls}

\* the session keys and the LLM functions of the stage behind each button
StageKeys(label) ==
    CASE label = "Check for Conflicts" ->
             {"conflict_results", "foundational_claim", "cited_documents"}
      [] label = "Analyze Figures and Cited Text" -> {"figure_analysis"}
      [] label = "Analyze Filed Application" -> {"filed_application_analysis"}
      [] label = "Analyze Pending Claims" -> {"pending_claims_analysis"}
      [] OTHER -> {}

StageCalls(label) ==
    CASE label = "Check for Conflicts" -> {"determine_domain_expertise", "check_for_conflicts"}
      [] label = "Analyze Figures and Cited Text" -> {"extract_figures_and_text"}
      [] label = "Analyze Filed Application" ->
             {"extract_details_from_filed_application", "analyze_filed_application"}
      [] label = "Analyze Pending Claims" -> {"analyze_modified_application"}
      [] OTHER -> {}

\* C1: a stage is offered only when the value its gate reads was stored by a
\* stage execution that reported success, and within Step 1 conflict
\* extraction is called only after domain-expertise detection returned a value
C1_StageOfferedOnlyAfterSuccess ==
    /\ "Step 2" \in run.offered => result_ok["conflict_results"]
    /\ "Step 3" \in run.offered => result_ok["figure_analysis"]
    /\ "Step 4" \in run.offered => result_ok["filed_application_analysis"]
    /\ \A i \in DOMAIN run.calls :
          run.calls[i].fn = "check_for_conflicts" =>
             /\ i > 1
             /\ run.calls[i - 1].fn = "determine_domain_expertise"
             /\ Truthy(run.calls[i - 1].returned)

\* C2: a script run in which an LLM call failed (it returned nothing usable)
\* leaves every stored Analysis Result as it was before the run
C2_FailedCallLeavesResults ==
    [][(\E call \in Calls(run') : ~Truthy(call.returned))
         => \A key \in ResultKeys : session_state'[key] = session_state[key]]_vars

\* C3: a session key that holds an Analysis Result never goes back to holding
\* none or an empty value
C3_ResultsNeverReturnToEmpty ==
    [][\A key \in ResultKeys : Truthy(session_state[key]) => Truthy(session_state'[key])]_vars

\* C4: a script run changes only the results of the stage whose button was
\* clicked and calls only that stage's LLM functions, so re-running an earlier
\* stage neither changes nor re-runs a later one
C4_RerunLeavesOtherStages ==
    [][/\ \A key \in ResultKeys :
             session_state'[key] # session_state[key] => key \in StageKeys(run'.clicked)
       /\ \A call \in Calls(run') : call.fn \in StageCalls(run'.clicked)]_vars

\* C4, its case: Step 1 has been re-run and has stored a new conflict result
\* while the results of Steps 2, 3 and 4 are present
C4_Step1RerunAfterAll ==
    /\ run.clicked = "Check for Conflicts"
    /\ "conflict_results" \in run.writes
    /\ session_state.figure_analysis # PyNone
    /\ session_state.filed_application_analysis # PyNone
    /\ session_state.pending_claims_analysis # PyNone

\* C5: no script run of app10 ends in an exception that escaped its stage
C5_NoExceptionEscapes == run10.exception = "none"

\* C6: no LLM function is called with the empty text the Text Extractor
\* returns for a PDF it could not read
C6_NoCallOnEmptyText == \A call \in Calls(run) : ~call.text_empty

\* C7: a reply that is exactly a fenced serialisation of a conflict-shaped
\* object (a json fence or a bare one, with or without whitespace around it)
\* is parsed by check_for_conflicts to that object
C7_FencedJsonRoundTrips ==
    (parse_pc = "parsed" /\ reply.fence \in {"json", "bare"} /\ ~reply.before /\ ~reply.after)
        => parsed = reply.object

\* C7, its case: a bare-fenced object with MaxDocs cited documents was parsed
C7_BareFenceParsed ==
    /\ parse_pc = "parsed"
    /\ reply.fence = "bare"
    /\ ~reply.before /\ ~reply.after
    /\ Len(DictGet(reply.object, Key_documents_referenced, PyList(<<>>)).v) = MaxDocs
    /\ parsed = reply.object

\* C8: a fenced conflict-shaped object with prose before the opening fence or
\* after the closing fence is parsed by check_for_conflicts to that object
C8_ProseAroundFenceTolerated ==
    (parse_pc = "parsed" /\ reply.fence \in {"json", "bare"} /\ (reply.before \/ reply.after))
        => parsed = reply.object

\* the four fields the conflict prompt names
HasNamedFields(x) ==
    /\ x.k = "dict"
    /\ \A key \in {Key_foundational_claim, Key_documents_referenced, Key_figures, Key_text} :
          \E i \in DOMAIN x.v : x.v[i][1] = key

\* C9: when check_for_conflicts returns a JSON value that is not an object with
\* the named fields, Step 1 stores nothing, shows an error and raises nothing
C9_WrongShapeFailsStage ==
    \A call \in Calls(run) :
       (call.fn = "check_for_conflicts" /\ call.returned # PyNone
        /\ ~HasNamedFields(call.returned))
          => /\ StageKeys("Check for Conflicts") \cap run.writes = {}
             /\ \E m \in run.msgs : m[1] = "error"
             /\ run.exception = "none"

\* the replies that are prose, not JSON, as they are or in a fence
ProseReplies == {Reply(Prose), Reply(InBareFence(Prose)), Reply(InJsonFence(Prose))}

NarrativeKey(fn) ==
    IF fn = "analyze_filed_application" THEN "filed_application_analysis"
    ELSE "pending_claims_analysis"

\* C10: when the reply to analyze_filed_application or analyze_modified_application
\* is prose, the function returns the prose without its fence, the stage stores
\* it as its result and reports success, and no error is shown
C10_ProseStoredAsResult ==
    \A call \in Calls(run) :
       (call.fn \in {"analyze_filed_application", "analyze_modified_application"}
        /\ call.outcome \in ProseReplies)
          => /\ call.returned = PyStr(Prose)
             /\ session_state[NarrativeKey(call.fn)] = PyStr(Prose)
             /\ \E m \in run.msgs : m[1] = "success"
             /\ \A m \in run.msgs : m[1] # "error"
             /\ run.exception = "none"

\* C10, its case: Step 4 got fenced prose, stored it and offered the download
C10_FencedProseStored ==
    /\ \E call \in Calls(run) :
          /\ call.fn = "analyze_modified_application"
          /\ call.outcome = Reply(InBareFence(Prose))
    /\ session_state.pending_claims_analysis = PyStr(Prose)
    /\ "pending_claims_download" \in run.downloads

\* C11: whatever value analyze_filed_application or analyze_modified_application
\* returned and the stage went on to store, the run that hands it to
\* save_analysis_to_word ends without an exception: the exporter returns a buffer
\* or rejects the value with its error message
C11_ExporterNeverRaises ==
    \A call \in Calls(run) :
       (call.fn \in {"analyze_filed_application", "analyze_modified_application"}
        /\ Truthy(call.returned))
          => /\ run.exception = "none"
             /\ \/ run.downloads # {}
                \/ <<"error", "Analysis data is missing or empty.">> \in run.msgs

\* C12: given None, the empty string or a string of whitespace only,
\* save_analysis_to_word shows the error "Analysis data is missing or empty.",
\* returns no document, and the script offers no download
C12_BlankInputRejected ==
    (/\ export_pc = "exported"
     /\ \/ analysis_output.value = PyNone
        \/ /\ analysis_output.value.k = "str"
           /\ \A i \in 1..Len(analysis_output.value.v) :
                 analysis_output.value.v[i] \in Whitespace)
       => /\ exported.outcome = "None"
          /\ exported.document = <<>>
          /\ <<"error", "Analysis data is missing or empty.">> \in exported.msgs
          /\ exported.downloads = {}
          /\ exported.exception = "none"

\* C12, its case: a string of blanks, a newline and a tab was rejected
C12_WhitespaceRejected ==
    /\ export_pc = "exported"
    /\ analysis_output.value = PyStr(<<" ", "\n", "\t", " ">>)
    /\ <<"error", "Analysis data is missing or empty.">> \in exported.msgs

\* C13: for the text "## title\n- item\n**bold**rest" the document holds, after
\* its title heading, a level-2 heading with the title, a bulleted paragraph
\* with the item, and a paragraph of three runs: an empty plain run (the piece
\* before the bold span), the bold span's text in bold, the rest in a plain run
C13_MarkdownBlocks ==
    (export_pc = "exported" /\ analysis_output.shape = "markdown")
       => /\ exported.outcome = "buffer"
          /\ exported.document =
                <<Block("heading", 1, ReportTitle, <<>>),
                  Block("heading", 2, analysis_output.title, <<>>),
                  Block("List Bullet", 0, analysis_output.item, <<>>),
                  Block("paragraph", 0, <<>>,
                        <<Run(<<>>, FALSE),
                          Run(analysis_output.bold, TRUE),
                          Run(analysis_output.rest, FALSE)>>)>>

\* C13, its case: "## Title\n- item one\n**bold** rest" was exported
C13_ScenarioExported ==
    /\ export_pc = "exported"
    /\ analysis_output.value =
          PyStr(<<"#", "#", " ", "T", "i", "t", "l", "e", "\n",
                  "-", " ", "i", "t", "e", "m", " ", "o", "n", "e", "\n",
                  "*", "*", "b", "o", "l", "d", "*", "*", " ", "r", "e", "s", "t">>)
    /\ Len(exported.document) = 4
    /\ exported.document[4].runs[2] = Run(<<"b", "o", "l", "d">>, TRUE)

\* C13 as stated: the first run of the last paragraph is the bold span's text
\* and the run after it holds the rest of the line
C13_FirstRunIsBold ==
    (export_pc = "exported" /\ analysis_output.shape = "markdown")
       => /\ Len(exported.document) = 4
          /\ exported.document[2] = Block("heading", 2, analysis_output.title, <<>>)
          /\ exported.document[3] = Block("List Bullet", 0, analysis_output.item, <<>>)
          /\ exported.document[4].runs[1] = Run(analysis_output.bold, TRUE)
          /\ exported.document[4].runs[2] = Run(analysis_output.rest, FALSE)

\* C14: in every state the session can be in, a run caused by clicking any of
\* the four stage buttons while its uploader is empty shows the stage's warning,
\* makes no extraction and no LLM call, writes no temporary file and leaves
\* every session-state key as it was (the only assignment it executes is the
\* Step 4 radio storing the option it already holds)
C14_NoFileClickIsNoOp ==
    \A clicked \in {"Check for Conflicts", "Analyze Figures and Cited Text",
                    "Analyze Filed Application", "Analyze Pending Claims"} :
       \A o1, o2 \in {NoReply, Reply(Prose)} :
          \A c \in {ScriptRun(session_state, temp_files, NoFile, clicked, RadioValue, o1, o2)} :
             clicked \in c.buttons
                => /\ c.ss = session_state
                   /\ c.writes \subseteq {"pending_claims_available"}
                   /\ c.calls = <<>>
                   /\ c.temp_files = temp_files
                   /\ \E m \in c.msgs : m[1] = "warning"

\* C14, its case: with results stored, Analyze Pending Claims was clicked with
\* no file and the run only warned
C14_PendingClaimsClickedWithoutFile ==
    /\ run.clicked = "Analyze Pending Claims"
    /\ <<"warning", "Please upload the pending claims document first.">> \in run.msgs
    /\ run.calls = <<>>
    /\ session_state.conflict_results # PyNone
    /\ session_state.filed_application_analysis # PyNone

\* C15: when the reply is the fallback "No figure details found.", the FIG
\* extraction yields that fallback again; and whenever the extraction came out
\* as the fallback, applying it to its own output yields the fallback once more
C15_FallbackIsFixedPoint ==
    parse_pc = "parsed"
       => /\ reply.text = No_figure_details_found
                => parsed.fig_details = No_figure_details_found
          /\ parsed.fig_details = No_figure_details_found
                => labeled_sections(parsed.fig_details).fig_details = No_figure_details_found

\* C15, its case: the fallback string was the reply and came back as fig_details
C15_FallbackParsed ==
    /\ parse_pc = "parsed"
    /\ reply.present = {}
    /\ reply.text = No_figure_details_found
    /\ parsed.fig_details = No_figure_details_found

\* C16: a section whose label is in the reply is the stripped text between the
\* label and the next label (or the end of the reply), whichever other labels
\* are there; a section whose label is missing is an explicit fallback string
C16_SectionsFollowMarkers ==
    parse_pc = "parsed"
       => /\ parsed.fig_details =
                IF "FIG" \in reply.present THEN Strip(reply.fig)
                ELSE No_figure_details_found
          /\ parsed.text_details =
                IF "TEXT" \in reply.present THEN Strip(reply.tech)
                ELSE No_technical_text_found
          /\ IF "FOUNDATIONAL_CLAIM" \in reply.present
             THEN parsed.foundational_claim = PyStr(Strip(reply.claim))
             ELSE parsed.foundational_claim.k = "str"

\* C17: for a readable PDF of N pages, the flat variant returns the page texts
\* 1..N one after the other (page i's text sits right after the texts of the
\* pages before it, and the length is the sum of the pages' lengths), and the
\* paged variant returns JSON whose "pages" list has N entries, entry i holding
\* page_number i and page i's text
C17_PagesInOrder ==
    LET RECURSIVE Before(_)
        Before(i) == IF i = 1 THEN 0 ELSE Before(i - 1) + Len(pdf.pages[i - 1])
        N == Len(pdf.pages)
        PagesOf(r) == DictGet(r.val, Key_pages, PyNone)
        Listed(r) ==
            /\ r.ok
            /\ r.val.k = "dict"
            /\ PagesOf(r).k = "list"
            /\ Len(PagesOf(r).v) = N
            /\ \A i \in 1..N :
                  PagesOf(r).v[i] = PyDict(<< <<Key_page_number, PyInt(i)>>,
                                              <<Key_text, PyStr(pdf.pages[i])>> >>)
    IN  /\ (flat_text # PyNone /\ pdf.readable)
              => /\ ~flat_text.raised
                 /\ Len(flat_text.text) = Before(N + 1)
                 /\ \A i \in 1..N :
                       SubSeq(flat_text.text, Before(i) + 1, Before(i) + Len(pdf.pages[i]))
                          = pdf.pages[i]
        /\ (paged_text # PyNone /\ pdf.readable) => Listed(json_loads(paged_text.v))

\* C17, its case: both variants were applied to a PDF of three pages, the
\* second of them empty
C17_ThreePagesExtracted ==
    /\ pdf = Pdf(<< <<"a">>, <<>>, <<"b", "\n">> >>)
    /\ flat_text # PyNone
    /\ flat_text.text = <<"a", "b", "\n">>
    /\ paged_text # PyNone
    /\ Len(paged_text.v) > 0

\* C18: when a script run of either variant has ended, none of the temporary
\* files its stages wrote for an uploaded PDF is left on disk
C18_TempFilesRemoved ==
    /\ temp_files = {}
    /\ temp_files10 = {}

\* C19: the sessions share one temporary file: at every moment the path each
\* session uses holds the file that any session wrote last, or no file once
\* any session has removed it
C19_SessionsShareTheFile ==
    \A s \in 1..MaxSessions : disk[TempPath(s)] = last_written

\* C19, its case: session 1 extracted the text of session 2's upload, not of
\* its own, and session 2 found the file removed: it extracted nothing and its
\* os.remove raised
C19_ForeignTextAndMissingFile ==
    /\ sessions[1].upload # sessions[2].upload
    /\ sessions[1].text = PyStr(extract_text_from_pdf(sessions[2].upload))
    /\ sessions[2].text = PyStr(<<>>)
    /\ sessions[2].exception = "FileNotFoundError"

\* C20: in app10, a run caused by clicking Analyze Figures (the button a
\* successful Check for Conflicts rendered) executes extract_figures_and_text
C20_AnalyzeFiguresExecutes ==
    run10.clicked = "Analyze Figures"
       => \E call \in Calls(run10) : call.fn = "extract_figures_and_text"

\* C21: in app10, a rerun during which the uploaders hold the same files as
\* before leaves st.session_state.referenced_documents as it was: the entries
\* stay one per uploaded referenced file and no rerun adds a duplicate
C21_RerunsAddNoEntries ==
    [][(/\ uploaded_ref_files' = uploaded_ref_files
        /\ uploaded_action_file' = uploaded_action_file)
          => session_state10'.referenced_documents = session_state10.referenced_documents]_vars

\* C22: for a one-line text that becomes a normal paragraph, the texts of
\* the paragraph's runs, joined in order, are the stripped line with only the
\* two delimiters of each matched pair of double asterisks removed, and the
\* bold runs are, in order, exactly the spans between matched delimiters
C22_RunsKeepTheLine ==
    LET Stars == <<"*", "*">>
        RECURSIVE Unmarked(_)
        Unmarked(line) ==
            LET p == FindText(line, Stars, 1)
                q == IF p = 0 THEN 0 ELSE FindText(line, Stars, p + 2)
            IN  IF q = 0 THEN line
                ELSE SubSeq(line, 1, p - 1) \o SubSeq(line, p + 2, q - 1)
                     \o Unmarked(SubSeq(line, q + 2, Len(line)))
        RECURSIVE Spans(_)
        Spans(line) ==
            LET p == FindText(line, Stars, 1)
                q == IF p = 0 THEN 0 ELSE FindText(line, Stars, p + 2)
            IN  IF q = 0 THEN <<>>
                ELSE <<SubSeq(line, p + 2, q - 1)>> \o Spans(SubSeq(line, q + 2, Len(line)))
        RECURSIVE Joined(_)
        Joined(runs) == IF runs = <<>> THEN <<>> ELSE Head(runs).text \o Joined(Tail(runs))
        RECURSIVE BoldTexts(_)
        BoldTexts(runs) ==
            IF runs = <<>> THEN <<>>
            ELSE (IF Head(runs).bold THEN <<Head(runs).text>> ELSE <<>>) \o BoldTexts(Tail(runs))
    IN  (/\ export_pc = "exported"
         /\ analysis_output.shape = "line"
         /\ exported.outcome = "buffer"
         /\ exported.document[2].kind = "paragraph")
           => /\ Joined(exported.document[2].runs) = Unmarked(Strip(analysis_output.value.v))
              /\ BoldTexts(exported.document[2].runs) = Spans(Strip(analysis_output.value.v))

====
